---- MODULE Spec2Model ----
(***************************************************************************)
(* The cross-page selection engine of the artwork table (src/src/App.tsx): *)
(* the React state of App, the page cache, the remote catalog, and the     *)
(* bulk-select dispatcher handleSelectNRows with its four strategies.      *)
(*                                                                         *)
(* One action is one macrotask of the browser's event loop: a user event,  *)
(* the settling of one network request, or a timer.  A handler that was    *)
(* resumed keeps running (microtasks) until it awaits something that is    *)
(* not yet settled; while a handler can run, no macrotask is taken.        *)
(* A handler reads the state of the render it was created in: every        *)
(* invocation carries that snapshot (sel0, art0, page0, total0).           *)
(***************************************************************************)
EXTENDS Integers, Sequences, FiniteSets, TLC

\* ---------------------------------------------------------------- bounds
MaxInv == 2          \* invocations of handleSelectNRows in one behaviour
MaxEvents == 1       \* page changes, view toggles, row clicks and clears
MaxRow == 2          \* rows of the page whose own checkbox is clicked
MaxFaults == 1       \* network requests that do not succeed

\* ------------------------------------------------------- program constants
rowsPerPage == 12
CACHE_DURATION == 5 * 60 * 1000
BulkIdThreshold == 500
UltraFastThreshold == 100
HybridThreshold == 50
SmallPageLimit == 3
batchSize == 10

\* The totals of the remote catalog a behaviour may run against.
CatalogTotals == {10, 30}

\* ------------------------------------------------------------ arithmetic
Min(a, b) == IF a <= b THEN a ELSE b
Max(a, b) == IF a >= b THEN a ELSE b

\* Math.ceil(a / b) for a >= 0, b > 0.
Ceil(a, b) == (a + b - 1) \div b

\* Math.round(n / d) for n >= 0, d > 0: halves round up.
Round(n, d) == (2 * n + d) \div (2 * d)

\* ------------------------------------------------------------- sequences
Range(s) == {s[k] : k \in 1..Len(s)}
Has(s, x) == \E k \in 1..Len(s) : s[k] = x
Remove(s, x) == SelectSeq(s, LAMBDA y : y # x)
\* Array.prototype.slice(from, to) with 0-based from, exclusive to.
Slice(s, from, to) == SubSeq(s, from + 1, Min(to, Len(s)))

\* A Set<number> is kept as the sequence of its members in insertion order.
SetAdd(s, x) == IF Has(s, x) THEN s ELSE Append(s, x)

RECURSIVE SetAddAll(_, _)
SetAddAll(s, xs) ==
  IF xs = <<>> THEN s ELSE SetAddAll(SetAdd(s, Head(xs)), Tail(xs))

RECURSIVE RemoveAll(_, _)
RemoveAll(s, xs) ==
  IF xs = <<>> THEN s ELSE RemoveAll(Remove(s, Head(xs)), Tail(xs))

\* -------------------------------------------------- the count input text
\* selectionCount is a string: a sequence of one-character strings.
DigitChars == <<"0", "1", "2", "3", "4", "5", "6", "7", "8", "9">>
IsDigit(c) == \E k \in 1..10 : DigitChars[k] = c
DigitVal(c) == (CHOOSE k \in 1..10 : DigitChars[k] = c) - 1

RECURSIVE TrimLeft(_)
TrimLeft(s) == IF s # <<>> /\ Head(s) = " " THEN TrimLeft(Tail(s)) ELSE s

RECURSIVE TrimRight(_)
TrimRight(s) ==
  IF s # <<>> /\ s[Len(s)] = " " THEN TrimRight(SubSeq(s, 1, Len(s) - 1)) ELSE s

\* String.prototype.trim
Trim(s) == TrimRight(TrimLeft(s))

\* The value of the leading run of decimal digits of s, after acc.
RECURSIVE DigitsValue(_, _)
DigitsValue(s, acc) ==
  IF s # <<>> /\ IsDigit(Head(s))
  THEN DigitsValue(Tail(s), 10 * acc + DigitVal(Head(s)))
  ELSE acc

\* parseInt(s): optional sign, then the leading decimal digits; NaN without one.
parseInt(s) ==
  LET t == TrimLeft(s)
      neg == t # <<>> /\ Head(t) = "-"
      u == IF t # <<>> /\ Head(t) \in {"-", "+"} THEN Tail(t) ELSE t
  IN  IF u = <<>> \/ ~IsDigit(Head(u))
      THEN [nan |-> TRUE, val |-> 0]
      ELSE [nan |-> FALSE,
            val |-> IF neg THEN 0 - DigitsValue(u, 0) ELSE DigitsValue(u, 0)]

\* Number.prototype.toString for n >= 0.
RECURSIVE NumToString(_)
NumToString(n) ==
  IF n < 10 THEN <<DigitChars[n + 1]>>
  ELSE Append(NumToString(n \div 10), DigitChars[(n % 10) + 1])

\* What the user may leave in the number input: the empty text, a fraction
\* without integer part, zero, a negative number, and target counts around
\* every strategy threshold.
CountInputs ==
  { <<>>, <<".", "5">>, <<"0">>, <<"-", "3">>, <<"2">>,
    <<"3", "0">>, <<"5", "0">>, <<"5", "1">>,
    <<"1", "0", "0">>, <<"1", "0", "1">>, <<"1", "5", "0">>,
    <<"5", "0", "0">>, <<"5", "0", "1">> }

\* What the user types against the earlier dispatcher: targets around its
\* threshold of 5000.
VariantInputs ==
  { <<"3", "0">>, <<"5", "0", "0", "0">>, <<"5", "0", "0", "1">>,
    <<"6", "0", "0", "0">> }

\* ------------------------------------------------------ the remote catalog
VARIABLES
  catalogTotal,        \* number of records the remote catalog holds
  artworks,            \* ids of the records the grid renders
  loading,
  currentPage,
  totalRecords,
  selectedArtworks,    \* the Selection Set, in insertion order
  showSelectionWindow,
  selectionCount,      \* text of the count input
  selectionProgress,
  isBulkSelecting,
  viewingSelected,
  requestCache,        \* set of entries [url, data, timestamp]
  now,                 \* Date.now(), in ms
  inv,                 \* the invocations of handleSelectNRows
  nextInv,             \* number of the next invocation
  loads,               \* page fetches of the view controller that are in flight
  navs, toggles, clears, typed, faults,
  lastValue,           \* what the latest onSelectionChange reported
  fetchLog             \* history: the requests made so far, [url, start, net, n]

vars == <<catalogTotal, artworks, loading, currentPage, totalRecords,
          selectedArtworks, showSelectionWindow, selectionCount,
          selectionProgress, isBulkSelecting, viewingSelected, requestCache,
          now, inv, nextInv, loads, navs, toggles, clears, typed, faults,
          lastValue, fetchLog>>

\* The ids of page p of the catalog: records are numbered 1..total in catalog
\* order; a page past the last one is empty.
RemotePage(total, p) ==
  LET n == Max(0, Min(rowsPerPage, total - (p - 1) * rowsPerPage))
  IN  [k \in 1..n |-> (p - 1) * rowsPerPage + k]

\* Request signatures: GET /artworks?page=..&limit=12&fields=.. and
\* GET /artworks?ids=..&fields=..
PageUrl(p, fields) == [kind |-> "page", page |-> p, ids |-> <<>>, fields |-> fields]
IdsUrl(ids) == [kind |-> "ids", page |-> 0, ids |-> ids, fields |-> "full"]

\* The JSON body of a success response, and of a non-success response (which
\* carries neither data nor pagination).
Body(total, url) ==
  IF url.kind = "page"
  THEN [hasData |-> TRUE, data |-> RemotePage(total, url.page), total |-> total]
  ELSE [hasData |-> TRUE,
        data |-> SelectSeq(url.ids, LAMBDA id : id <= total),
        total |-> 0]
ErrorBody == [hasData |-> FALSE, data |-> <<>>, total |-> 0]

\* How a network request may settle: a success response, a non-success
\* response with a JSON body, or a transport failure.
Outcomes == {"ok", "error", "reject"}

\* ------------------------------------------------------------ page cache
CacheEntry(cache, url) == CHOOSE e \in cache : e.url = url

\* A lookup that serves the entry of url whatever its age.
CacheHitAnyAge(cache, url, t) == \E e \in cache : e.url = url

\* fetchWithCache serves the entry of url when it is younger than the TTL.
CacheHit(cache, url, t) ==
  \E e \in cache : e.url = url /\ t - e.timestamp < CACHE_DURATION

\* requestCache.current.set(url, {data, timestamp})
CachePut(cache, url, data, t) ==
  {e \in cache : e.url # url} \cup {[url |-> url, data |-> data, timestamp |-> t]}

\* A call of fetchWithCache up to its first await: settled at once from the
\* cache, or a network request in flight.
IssueFetch(cache, url, t) ==
  IF CacheHit(cache, url, t)
  THEN [url |-> url, status |-> "fulfilled", value |-> CacheEntry(cache, url).data]
  ELSE [url |-> url, status |-> "inflight", value |-> ErrorBody]

IssueAll(cache, urls, t) == [k \in 1..Len(urls) |-> IssueFetch(cache, urls[k], t)]

AllSettled(slots) == \A k \in 1..Len(slots) : slots[k].status # "inflight"

\* The history record of a request for url made now: net tells whether it went
\* to the network, n counts the earlier requests for the same url.
Call(url, net) ==
  [url |-> url, start |-> now, net |-> net,
   n |-> Cardinality({c \in fetchLog : c.url = url})]

\* ------------------------------------------------------------ invocations
IdleInv ==
  [pc |-> "idle", count |-> 0, outcome |-> "", strategy |-> "",
   sel0 |-> <<>>, art0 |-> <<>>, page0 |-> 0, total0 |-> 0,
   newSelected |-> <<>>, remainingToSelect |-> 0,
   neededPages |-> <<>>, slots |-> <<>>, batch |-> 0, processedPages |-> 0,
   page |-> 0, lastPage |-> 0, issued |-> 0, failed |-> FALSE, overlap |-> FALSE,
   progress |-> <<>>]   \* values its latest step passed to setSelectionProgress

\* Positions of a handler at which it runs without waiting for anything.
SyncPcs == {"dispatch", "ultraFinal", "hybridFinal"}
\* Positions at which it awaits the requests of its slots.
WaitPcs == {"smallPage", "hybridPages", "hybridShow", "ultraBatch", "ultraShow",
            "bulkIds", "bulkShow", "variantPages"}

Runnable(r) ==
  \/ r.pc \in SyncPcs
  \/ r.pc \in WaitPcs /\ AllSettled(r.slots)

\* No handler has a continuation ready: the event loop takes a macrotask.
NoMicrotask == \A i \in 1..MaxInv : ~Runnable(inv[i])

InFlight(r) == r.pc \notin {"idle", "done"}

\* The requests invocation i issued in the step taken: those of its new slots.
NewCalls(i) ==
  IF inv'[i].issued > inv[i].issued
  THEN {Call(inv'[i].slots[k].url, inv'[i].slots[k].status = "inflight") :
          k \in 1..Len(inv'[i].slots)}
  ELSE {}

\* The user events taken so far that count against MaxEvents.
Events == navs + toggles + clears

\* Selections the user may have made by row clicks before a behaviour starts.
InitialSelections == {<<>>, <<2, 1>>}

\* The application once the initial fetchArtworks(1) has settled and the user
\* has browsed to some page p of the catalog; p = 0 stands for an initial load
\* that failed, which leaves the table empty and the total unknown.
Init ==
  /\ catalogTotal \in CatalogTotals
  /\ \E p \in 0..Ceil(catalogTotal, rowsPerPage) :
       /\ currentPage = Max(p, 1)
       /\ artworks = IF p = 0 THEN <<>> ELSE RemotePage(catalogTotal, p)
       /\ totalRecords = IF p = 0 THEN 0 ELSE catalogTotal
       /\ selectedArtworks \in IF p = 0 THEN {<<>>} ELSE InitialSelections
  /\ loading = FALSE
  /\ showSelectionWindow = FALSE
  /\ selectionCount = <<>>
  /\ selectionProgress = 0
  /\ isBulkSelecting = FALSE
  /\ viewingSelected = FALSE
  /\ requestCache = {}
  /\ now = 0
  /\ inv = [i \in 1..MaxInv |-> IdleInv]
  /\ nextInv = 1
  /\ loads = {}
  /\ navs = 0
  /\ toggles = 0
  /\ clears = 0
  /\ typed = 0
  /\ faults = 0
  /\ lastValue = <<>>
  /\ fetchLog = {}

\* -------------------------------------------------- page view controller
\* fetchArtworks(page) up to its await: the list request is sent directly,
\* not through the cache.
FetchArtworks(page) ==
  /\ loading' = TRUE
  /\ loads' = loads \cup
       {[id |-> navs + 1, kind |-> "all", page |-> page, url |-> PageUrl(page, "full")]}
  /\ fetchLog' = fetchLog \cup {Call(PageUrl(page, "full"), TRUE)}
  /\ UNCHANGED <<artworks, requestCache>>

\* What fetchSelectedArtworksForPage renders from a settled bulk-by-ids payload.
ShownRecords(payload) ==
  IF payload.hasData /\ payload.data # <<>> THEN payload.data ELSE <<>>

\* A display of the selected rows that always takes the first slice.
FetchSelectedFirstSlice(page) ==
  LET pageSelectedIds == Slice(selectedArtworks, 0, rowsPerPage)
      url == IdsUrl(pageSelectedIds)
  IN  /\ UNCHANGED <<loading, requestCache>>
      /\ IF Len(selectedArtworks) = 0
         THEN UNCHANGED <<artworks, loads, fetchLog>>
         ELSE IF CacheHit(requestCache, url, now)
         THEN /\ artworks' = ShownRecords(CacheEntry(requestCache, url).data)
              /\ fetchLog' = fetchLog \cup {Call(url, FALSE)}
              /\ UNCHANGED loads
         ELSE /\ loads' = loads \cup
                   {[id |-> navs + 1, kind |-> "sel", page |-> page, url |-> url]}
              /\ fetchLog' = fetchLog \cup {Call(url, TRUE)}
              /\ UNCHANGED artworks

\* fetchSelectedArtworksForPage(page) up to its await.
FetchSelectedArtworksForPage(page) ==
  LET startIndex == (page - 1) * rowsPerPage
      endIndex == startIndex + rowsPerPage
      pageSelectedIds == Slice(selectedArtworks, startIndex, endIndex)
      url == IdsUrl(pageSelectedIds)
  IN  /\ UNCHANGED <<loading, requestCache>>
      /\ IF Len(selectedArtworks) = 0
         THEN UNCHANGED <<artworks, loads, fetchLog>>
         ELSE IF pageSelectedIds = <<>>
         THEN artworks' = <<>> /\ UNCHANGED <<loads, fetchLog>>
         ELSE IF CacheHit(requestCache, url, now)
         THEN /\ artworks' = ShownRecords(CacheEntry(requestCache, url).data)
              /\ fetchLog' = fetchLog \cup {Call(url, FALSE)}
              /\ UNCHANGED loads
         ELSE /\ loads' = loads \cup
                   {[id |-> navs + 1, kind |-> "sel", page |-> page, url |-> url]}
              /\ fetchLog' = fetchLog \cup {Call(url, TRUE)}
              /\ UNCHANGED artworks

\* Number of pages the paginator offers.
PageCount ==
  Ceil(IF viewingSelected THEN Len(selectedArtworks) ELSE totalRecords, rowsPerPage)

\* A page change that starts the new page with nothing selected.
onPageChangeDropsSelection(newPage) ==
  /\ NoMicrotask
  /\ Events < MaxEvents
  /\ newPage \in 1..PageCount
  /\ navs' = navs + 1
  /\ currentPage' = newPage
  /\ showSelectionWindow' = FALSE
  /\ selectedArtworks' = <<>>
  /\ FetchArtworks(newPage)
  /\ UNCHANGED <<catalogTotal, totalRecords, selectionCount,
                 selectionProgress, isBulkSelecting, viewingSelected, now, inv,
                 nextInv, toggles, clears, typed, faults,
                 lastValue>>

\* The user clicks a page link of the paginator.
onPageChange(newPage) ==
  /\ NoMicrotask
  /\ Events < MaxEvents
  /\ newPage \in 1..PageCount
  /\ navs' = navs + 1
  /\ currentPage' = newPage
  /\ showSelectionWindow' = FALSE
  /\ IF Len(selectedArtworks) > 0 /\ viewingSelected
     THEN FetchSelectedArtworksForPage(newPage)
     ELSE FetchArtworks(newPage)
  /\ UNCHANGED <<catalogTotal, totalRecords, selectedArtworks, selectionCount,
                 selectionProgress, isBulkSelecting, viewingSelected, now, inv,
                 nextInv, toggles, clears, typed, faults,
                 lastValue>>

\* The View Selected / View All button of the selection panel.
ToggleView ==
  /\ NoMicrotask
  /\ Events < MaxEvents
  /\ Len(selectedArtworks) > 0
  /\ navs' = navs + 1
  /\ viewingSelected' = ~viewingSelected
  /\ showSelectionWindow' = FALSE
  /\ IF ~viewingSelected
     THEN FetchSelectedArtworksForPage(currentPage)
     ELSE FetchArtworks(currentPage)
  /\ UNCHANGED <<catalogTotal, currentPage, totalRecords, selectedArtworks,
                 selectionCount, selectionProgress, isBulkSelecting, now, inv,
                 nextInv, toggles, clears, typed, faults,
                 lastValue>>

\* A clearing of the selection that stays in the view it was pressed in.
ClearSelectionKeepView ==
  /\ NoMicrotask
  /\ Events < MaxEvents
  /\ Len(selectedArtworks) > 0
  /\ clears' = clears + 1
  /\ selectedArtworks' = <<>>
  /\ showSelectionWindow' = FALSE
  /\ UNCHANGED <<catalogTotal, artworks, loading, currentPage, totalRecords,
                 selectionCount, selectionProgress, isBulkSelecting, requestCache,
                 viewingSelected, now, inv, nextInv, loads, navs, toggles, typed,
                 faults, lastValue, fetchLog>>

\* The Clear Selection button of the selection panel.
ClearSelection ==
  /\ NoMicrotask
  /\ Events < MaxEvents
  /\ Len(selectedArtworks) > 0
  /\ clears' = clears + 1
  /\ selectedArtworks' = <<>>
  /\ viewingSelected' = FALSE
  /\ showSelectionWindow' = FALSE
  /\ UNCHANGED <<catalogTotal, artworks, loading, currentPage, totalRecords,
                 selectionCount, selectionProgress, isBulkSelecting, requestCache,
                 now, inv, nextInv, loads, navs, toggles, typed, faults,
                 lastValue, fetchLog>>

\* The list request of fetchArtworks settles.  The behaviours followed here
\* are those whose direct list responses carry data and pagination.
FetchArtworksDone(l, outcome) ==
  /\ NoMicrotask
  /\ l \in loads /\ l.kind = "all"
  /\ outcome \in {"ok", "reject"}
  /\ outcome # "ok" => faults < MaxFaults
  /\ faults' = IF outcome = "ok" THEN faults ELSE faults + 1
  /\ loads' = loads \ {l}
  /\ loading' = FALSE
  /\ IF outcome = "ok"
     THEN /\ artworks' = Body(catalogTotal, l.url).data
          /\ totalRecords' = Body(catalogTotal, l.url).total
          /\ currentPage' = l.page
     ELSE UNCHANGED <<artworks, totalRecords, currentPage>>
  /\ UNCHANGED <<catalogTotal, selectedArtworks, showSelectionWindow, selectionCount,
                 selectionProgress, isBulkSelecting, viewingSelected, requestCache,
                 now, inv, nextInv, navs, toggles, clears, typed,
                 lastValue, fetchLog>>

\* The bulk-by-ids request of fetchSelectedArtworksForPage settles.
FetchSelectedDone(l, outcome) ==
  /\ NoMicrotask
  /\ l \in loads /\ l.kind = "sel"
  /\ outcome \in Outcomes
  /\ outcome # "ok" => faults < MaxFaults
  /\ faults' = IF outcome = "ok" THEN faults ELSE faults + 1
  /\ loads' = loads \ {l}
  /\ LET payload == IF outcome = "ok" THEN Body(catalogTotal, l.url) ELSE ErrorBody
     IN  /\ requestCache' = IF outcome = "reject" THEN requestCache
                            ELSE CachePut(requestCache, l.url, payload, now)
         /\ artworks' = ShownRecords(payload)
  /\ UNCHANGED <<catalogTotal, loading, currentPage, totalRecords, selectedArtworks,
                 showSelectionWindow, selectionCount, selectionProgress,
                 isBulkSelecting, viewingSelected, now, inv, nextInv, navs, toggles,
                 clears, typed,
                 lastValue, fetchLog>>

\* ------------------------------------------------------ row selection events
\* The rows of the rendered page that the grid shows as checked.
CheckedRows(visible, sel) == SelectSeq(visible, LAMBDA id : Has(sel, id))

\* The values the grid can report after one click: one row's checkbox
\* flipped, or the header checkbox checking or unchecking the whole page.
ToggleValues(visible, sel) ==
  LET checked == CheckedRows(visible, sel)
  IN  {visible, <<>>} \cup
      { IF Has(checked, visible[k]) THEN Remove(checked, visible[k])
        ELSE Append(checked, visible[k]) : k \in 1..Min(MaxRow, Len(visible)) }

\* Reconciliation that replaces the Selection Set by the reported value.
ReconciledReplace(sel, visible, value) == value

\* Reconciliation that adds the reported rows and removes none.
ReconciledAddOnly(sel, visible, value) == SetAddAll(sel, value)

\* The Selection Set after onSelectionChange reported value on a page showing
\* visible.
Reconciled(sel, visible, value) ==
  RemoveAll(SetAddAll(sel, value), SelectSeq(visible, LAMBDA id : ~Has(value, id)))

\* A selection change that also switches to the view of the selected rows.
onSelectionChangeShowsSelected(value) ==
  /\ NoMicrotask
  /\ ~loading
  /\ Events < MaxEvents
  /\ artworks # <<>>
  /\ value \in ToggleValues(artworks, selectedArtworks)
  /\ toggles' = toggles + 1
  /\ lastValue' = value
  /\ selectedArtworks' = Reconciled(selectedArtworks, artworks, value)
  /\ showSelectionWindow' = FALSE
  /\ viewingSelected' = TRUE
  /\ UNCHANGED <<catalogTotal, artworks, loading, currentPage, totalRecords,
                 selectionCount, selectionProgress, isBulkSelecting,
                 requestCache, now, inv, nextInv, loads, navs, clears, typed, faults,
                 fetchLog>>

onSelectionChange(value) ==
  /\ NoMicrotask
  /\ ~loading
  /\ Events < MaxEvents
  /\ artworks # <<>>
  /\ value \in ToggleValues(artworks, selectedArtworks)
  /\ toggles' = toggles + 1
  /\ lastValue' = value
  /\ selectedArtworks' = Reconciled(selectedArtworks, artworks, value)
  /\ showSelectionWindow' = FALSE
  /\ UNCHANGED <<catalogTotal, artworks, loading, currentPage, totalRecords,
                 selectionCount, selectionProgress, isBulkSelecting, viewingSelected,
                 requestCache, now, inv, nextInv, loads, navs, clears, typed, faults,
                 fetchLog>>

\* ----------------------------------------------------- the selection window
\* The chevron of the selection column opens and closes the window.
ToggleWindow ==
  /\ NoMicrotask
  /\ ~loading
  /\ showSelectionWindow' = ~showSelectionWindow
  /\ UNCHANGED <<catalogTotal, artworks, loading, currentPage, totalRecords,
                 selectedArtworks, selectionCount, selectionProgress, isBulkSelecting,
                 viewingSelected, requestCache, now, inv, nextInv, loads, navs,
                 toggles, clears, typed, faults,
                 lastValue, fetchLog>>

\* The user edits the count input: one edit before each bulk-select request.
TypeCount(text) ==
  /\ NoMicrotask
  /\ showSelectionWindow
  /\ typed < nextInv /\ nextInv <= MaxInv
  /\ text \in CountInputs \cup VariantInputs /\ text # selectionCount
  /\ typed' = typed + 1
  /\ selectionCount' = text
  /\ UNCHANGED <<catalogTotal, artworks, loading, currentPage, totalRecords,
                 selectedArtworks, showSelectionWindow, selectionProgress,
                 isBulkSelecting, viewingSelected, requestCache, now, inv, nextInv,
                 loads, navs, toggles, clears, faults,
                 lastValue, fetchLog>>

\* ------------------------------------------------- the bulk-select dispatcher
\* The forEach that selects from a page: every id of ids that is not yet in
\* sel is added while remaining > 0.  a = <<ids, sel, remaining>>.
SelectFromLoop[a \in Seq(Int) \X Seq(Int) \X Int] ==
  IF a[1] = <<>> THEN [sel |-> a[2], remaining |-> a[3]]
  ELSE IF ~Has(a[2], Head(a[1])) /\ a[3] > 0
  THEN SelectFromLoop[<<Tail(a[1]), Append(a[2], Head(a[1])), a[3] - 1>>]
  ELSE SelectFromLoop[<<Tail(a[1]), a[2], a[3]>>]

\* A selection from a page that takes every id not yet selected, whatever
\* remains to select.
SelectFromWholePage(ids, sel, remaining) ==
  LET added == SelectSeq(ids, LAMBDA id : ~Has(sel, id))
  IN  [sel |-> sel \o added, remaining |-> remaining - Len(added)]

SelectFrom(ids, sel, remaining) == SelectFromLoop[<<ids, sel, remaining>>]

\* The data a settled request contributes: that of a fulfilled result whose
\* body has data, nothing otherwise.
ResultData(slot) ==
  IF slot.status = "fulfilled" /\ slot.value.hasData THEN slot.value.data ELSE <<>>

\* The ids of every fulfilled result, those of the latest request first.
CollectIdsLatestFirst(slots) ==
  LET loop[a \in Nat \X Seq(Int)] ==
        IF a[1] >= Len(slots) THEN a[2]
        ELSE loop[<<a[1] + 1, ResultData(slots[a[1] + 1]) \o a[2]>>]
  IN  loop[<<0, << >> >>]

\* allIds of the bulk-id strategy: the ids of every fulfilled result, in the
\* order the requests were issued.  a = <<k, ids>>: the results after the
\* first k, appended to ids.
CollectIds(slots) ==
  LET loop[a \in Nat \X Seq(Int)] ==
        IF a[1] >= Len(slots) THEN a[2]
        ELSE loop[<<a[1] + 1, a[2] \o ResultData(slots[a[1] + 1])>>]
  IN  loop[<<0, << >> >>]

\* A processing of the results that gives up at the first request that
\* contributed nothing.
ApplyResultsUntilFailure(slots, sel, remaining) ==
  LET loop[a \in Nat \X Seq(Int) \X Int] ==
        IF a[1] >= Len(slots) \/ ResultData(slots[a[1] + 1]) = <<>>
        THEN [sel |-> a[2], remaining |-> a[3]]
        ELSE LET next == SelectFrom(ResultData(slots[a[1] + 1]), a[2], a[3])
             IN  loop[<<a[1] + 1, next.sel, next.remaining>>]
  IN  loop[<<0, sel, remaining>>]

\* The forEach over the results of Promise.allSettled, in the order the
\* requests were issued: each fulfilled result that has data is selected from.
\* a = <<k, sel, remaining>>: the results after the first k.
ApplyResults(slots, sel, remaining) ==
  LET loop[a \in Nat \X Seq(Int) \X Int] ==
        IF a[1] >= Len(slots) THEN [sel |-> a[2], remaining |-> a[3]]
        ELSE LET next == SelectFrom(ResultData(slots[a[1] + 1]), a[2], a[3])
             IN  loop[<<a[1] + 1, next.sel, next.remaining>>]
  IN  loop[<<0, sel, remaining>>]

\* neededPages: the pages after page, at most as many as remaining asks for
\* and none past the last page of total.
NeededPages(page, total, remaining) ==
  LET maxPages == Ceil(total, rowsPerPage)
      pagesNeeded == Ceil(remaining, rowsPerPage)
  IN  [k \in 1..Max(0, Min(pagesNeeded, maxPages - page)) |-> page + k]

\* The checks without the comparison of the target with the selection size.
VerdictNoSizeCheck(text, size, page, total) ==
  LET count == parseInt(Trim(text))
      maxPages == Ceil(total, rowsPerPage)
      pagesNeeded == Ceil(count.val - size, rowsPerPage)
      endPage == Min(page + pagesNeeded, maxPages)
  IN  IF Trim(text) = <<>> \/ count.nan \/ count.val <= 0 THEN "invalid"
      ELSE IF endPage > maxPages THEN "capacity"
      ELSE "accepted"

\* The checks of handleSelectNRows before it starts: what it does with the
\* text of the count input.
Verdict(text, size, page, total) ==
  LET count == parseInt(Trim(text))
      maxPages == Ceil(total, rowsPerPage)
      pagesNeeded == Ceil(count.val - size, rowsPerPage)
      endPage == Min(page + pagesNeeded, maxPages)
  IN  IF Trim(text) = <<>> \/ count.nan \/ count.val <= 0 THEN "invalid"
      ELSE IF count.val <= size THEN "already"
      ELSE IF endPage > maxPages THEN "capacity"
      ELSE "accepted"

\* The dispatch with every threshold taken inclusive.
StrategyInclusive(count) ==
  IF count >= BulkIdThreshold THEN "bulk"
  ELSE IF count >= UltraFastThreshold THEN "ultra"
  ELSE IF count >= HybridThreshold THEN "hybrid"
  ELSE "small"

\* The strategy that takes an accepted request: the first of bulk-id,
\* ultra-fast (parallel-batched) and hybrid whose test passes, else small.
Strategy(count) ==
  IF count > BulkIdThreshold THEN "bulk"
  ELSE IF count > UltraFastThreshold THEN "ultra"
  ELSE IF count > HybridThreshold /\ count <= UltraFastThreshold THEN "hybrid"
  ELSE "small"

Sources == {"enter", "selectRows", "selectAll"}

\* handleSelectNRows is called: Enter in the count input, the Select Rows
\* button, or the Select All button (which first sets the count input; the
\* handler it calls still reads the text of the current render).
Invoke(src) ==
  /\ NoMicrotask
  /\ nextInv <= MaxInv
  /\ showSelectionWindow
  /\ src \in Sources
  /\ src # "enter" => ~loading
  /\ LET verdict == Verdict(selectionCount, Len(selectedArtworks), currentPage,
                            totalRecords)
         r == [IdleInv EXCEPT
                 !.count = parseInt(Trim(selectionCount)).val,
                 !.outcome = verdict,
                 !.sel0 = selectedArtworks,
                 !.art0 = artworks,
                 !.page0 = currentPage,
                 !.total0 = totalRecords,
                 !.overlap = \E j \in 1..MaxInv : InFlight(inv[j]),
                 !.progress = IF verdict = "accepted" THEN <<0>> ELSE <<>>,
                 !.pc = IF verdict = "accepted" THEN "dispatch" ELSE "done"]
     IN  /\ inv' = [inv EXCEPT ![nextInv] = r]
         /\ IF verdict = "accepted"
            THEN /\ loading' = TRUE
                 /\ isBulkSelecting' = TRUE
                 /\ selectionProgress' = 0
            ELSE UNCHANGED <<loading, isBulkSelecting, selectionProgress>>
  /\ nextInv' = nextInv + 1
  /\ selectionCount' = IF src = "selectAll" THEN NumToString(totalRecords)
                       ELSE selectionCount
  /\ UNCHANGED <<catalogTotal, artworks, currentPage, totalRecords, selectedArtworks,
                 showSelectionWindow, viewingSelected, requestCache, now, loads,
                 navs, toggles, clears, typed, faults,
                 lastValue, fetchLog>>

\* One network request of a handler settles.  A response that has a JSON body
\* is cached whatever its status; a transport failure rejects.
SettleFetch(i, k, outcome) ==
  /\ NoMicrotask
  /\ i \in 1..MaxInv /\ inv[i].pc \in WaitPcs
  /\ k \in 1..Len(inv[i].slots) /\ inv[i].slots[k].status = "inflight"
  /\ outcome \in Outcomes
  /\ outcome # "ok" => faults < MaxFaults
  /\ faults' = IF outcome = "ok" THEN faults ELSE faults + 1
  /\ LET url == inv[i].slots[k].url
         payload == IF outcome = "ok" THEN Body(catalogTotal, url) ELSE ErrorBody
     IN  /\ requestCache' = IF outcome = "reject" THEN requestCache
                            ELSE CachePut(requestCache, url, payload, now)
         /\ inv' = [inv EXCEPT
                      ![i].slots[k] =
                         [url |-> url,
                          status |-> IF outcome = "reject" THEN "rejected"
                                     ELSE "fulfilled",
                          value |-> payload],
                      ![i].failed = inv[i].failed \/ outcome # "ok",
                      ![i].progress = <<>>]
  /\ UNCHANGED <<catalogTotal, artworks, loading, currentPage, totalRecords,
                 selectedArtworks, showSelectionWindow, selectionCount,
                 selectionProgress, isBulkSelecting, viewingSelected, now, nextInv,
                 loads, navs, toggles, clears, typed,
                 lastValue, fetchLog>>

\* An end of handleSelectNRows that leaves the loading flag as it is.
FinishedStillLoading(i, r) ==
  /\ inv' = [inv EXCEPT ![i] = [r EXCEPT !.pc = "done", !.outcome = "success",
                                         !.slots = <<>>, !.neededPages = <<>>,
                                         !.batch = 0, !.processedPages = 0,
                                         !.page = 0, !.lastPage = 0]]
  /\ loading' = loading
  /\ isBulkSelecting' = FALSE
  /\ selectionProgress' = 0
  /\ showSelectionWindow' = FALSE
  /\ selectionCount' = <<>>

\* The end of handleSelectNRows after a strategy: every path clears the busy
\* flags and the progress, closes the window and empties the count input.
Finished(i, r) ==
  /\ inv' = [inv EXCEPT ![i] = [r EXCEPT !.pc = "done", !.outcome = "success",
                                         !.slots = <<>>, !.neededPages = <<>>,
                                         !.batch = 0, !.processedPages = 0,
                                         !.page = 0, !.lastPage = 0]]
  /\ loading' = FALSE
  /\ isBulkSelecting' = FALSE
  /\ selectionProgress' = 0
  /\ showSelectionWindow' = FALSE
  /\ selectionCount' = <<>>

\* Strategy r goes on to wait for the requests slots at position pc.
Awaiting(i, r, pc, slots) ==
  inv' = [inv EXCEPT ![i] = [r EXCEPT !.pc = pc, !.slots = slots,
                                      !.issued = r.issued + Len(slots)]]

\* Strategy r goes on at position pc without waiting.
Goto(i, r, pc) == inv' = [inv EXCEPT ![i] = [r EXCEPT !.pc = pc, !.slots = <<>>]]

\* A first step that starts from an empty set instead of the current one.
FromCurrentPageFresh(r, strategy) ==
  LET first == SelectFrom(r.art0, <<>>, r.count)
  IN  [r EXCEPT !.strategy = strategy,
                !.newSelected = first.sel,
                !.remainingToSelect = first.remaining,
                !.progress = <<>>]

\* r after it selected from the rendered page, as every strategy does first.
FromCurrentPage(r, strategy) ==
  LET first == SelectFrom(r.art0, r.sel0, r.count - Len(r.sel0))
  IN  [r EXCEPT !.strategy = strategy,
                !.newSelected = first.sel,
                !.remainingToSelect = first.remaining,
                !.progress = <<>>]

\* r after the results of its settled requests were selected from.
AfterResults(r) ==
  LET got == ApplyResults(r.slots, r.newSelected, r.remainingToSelect)
  IN  [r EXCEPT !.newSelected = got.sel, !.remainingToSelect = got.remaining,
                !.progress = <<>>]

\* Bulk-by-ids requests for every page of ids, for display.
ShowSlotsEveryPage(ids) ==
  [k \in 1..Ceil(Len(ids), rowsPerPage) |->
     IssueFetch(requestCache, IdsUrl(Slice(ids, (k - 1) * rowsPerPage, k * rowsPerPage)), now)]

\* The bulk-by-ids request for the first page of ids, for display.
ShowSlots(ids) == <<IssueFetch(requestCache, IdsUrl(Slice(ids, 0, rowsPerPage)), now)>>

\* The records a strategy renders once its display request settled.
Shown(r) ==
  IF /\ r.slots[1].status = "fulfilled"
     /\ r.slots[1].value.hasData
     /\ r.slots[1].value.data # <<>>
  THEN r.slots[1].value.data
  ELSE artworks

\* ---- small strategy: the rendered page, then up to three pages in turn
SmallFinish(i, r) ==
  /\ selectedArtworks' = r.newSelected
  /\ Finished(i, r)

\* A start of the small strategy whose page budget is all the pages it needs.
StartSmallNoLimit(i) ==
  /\ i \in 1..MaxInv /\ inv[i].pc = "dispatch"
  /\ Strategy(inv[i].count) = "small"
  /\ LET r == FromCurrentPage(inv[i], "small")
         pagesToFetch == Ceil(r.remainingToSelect, rowsPerPage)
         r2 == [r EXCEPT !.page = r.page0 + 1,
                         !.lastPage = r.page0 + pagesToFetch]
     IN  IF r.remainingToSelect > 0
         THEN /\ Awaiting(i, r2, "smallPage",
                          <<IssueFetch(requestCache, PageUrl(r2.page, "full"), now)>>)
              /\ UNCHANGED <<selectedArtworks, loading, isBulkSelecting,
                             selectionProgress, showSelectionWindow, selectionCount>>
         ELSE SmallFinish(i, r)
  /\ UNCHANGED <<catalogTotal, artworks, currentPage, totalRecords, viewingSelected,
                 requestCache, now, nextInv, loads, navs, toggles, clears, typed,
                 faults,
                 lastValue>>
  /\ fetchLog' = fetchLog \cup NewCalls(i)

StartSmall(i) ==
  /\ i \in 1..MaxInv /\ inv[i].pc = "dispatch"
  /\ Strategy(inv[i].count) = "small"
  /\ LET r == FromCurrentPage(inv[i], "small")
         pagesToFetch == Ceil(r.remainingToSelect, rowsPerPage)
         maxPagesToFetch == Min(pagesToFetch, SmallPageLimit)
         r2 == [r EXCEPT !.page = r.page0 + 1,
                         !.lastPage = r.page0 + maxPagesToFetch]
     IN  IF r.remainingToSelect > 0
         THEN /\ Awaiting(i, r2, "smallPage",
                          <<IssueFetch(requestCache, PageUrl(r2.page, "full"), now)>>)
              /\ UNCHANGED <<selectedArtworks, loading, isBulkSelecting,
                             selectionProgress, showSelectionWindow, selectionCount>>
         ELSE SmallFinish(i, r)
  /\ UNCHANGED <<catalogTotal, artworks, currentPage, totalRecords, viewingSelected,
                 requestCache, now, nextInv, loads, navs, toggles, clears, typed,
                 faults,
                 lastValue>>
  /\ fetchLog' = fetchLog \cup NewCalls(i)

\* The awaited page of the small strategy settled.  A rejected request, or a
\* body without data (data.data.forEach throws), ends the loop.
SmallPageDone(i) ==
  /\ i \in 1..MaxInv /\ inv[i].pc = "smallPage" /\ AllSettled(inv[i].slots)
  /\ LET r == inv[i]
         s == r.slots[1]
         thrown == s.status = "rejected" \/ ~s.value.hasData
         r2 == IF thrown THEN [r EXCEPT !.progress = <<>>]
               ELSE [AfterResults(r) EXCEPT !.page = r.page + 1]
     IN  IF ~thrown /\ r2.page <= r2.lastPage /\ r2.remainingToSelect > 0
         THEN /\ Awaiting(i, r2, "smallPage",
                          <<IssueFetch(requestCache, PageUrl(r2.page, "full"), now)>>)
              /\ UNCHANGED <<selectedArtworks, loading, isBulkSelecting,
                             selectionProgress, showSelectionWindow, selectionCount>>
         ELSE SmallFinish(i, r2)
  /\ UNCHANGED <<catalogTotal, artworks, currentPage, totalRecords, viewingSelected,
                 requestCache, now, nextInv, loads, navs, toggles, clears, typed,
                 faults,
                 lastValue>>
  /\ fetchLog' = fetchLog \cup NewCalls(i)

\* ---- hybrid strategy: all needed pages at once
StartHybrid(i) ==
  /\ i \in 1..MaxInv /\ inv[i].pc = "dispatch"
  /\ Strategy(inv[i].count) = "hybrid"
  /\ LET r0 == FromCurrentPage(inv[i], "hybrid")
         r == [r0 EXCEPT !.neededPages =
                 NeededPages(r0.page0, r0.total0, r0.remainingToSelect)]
     IN  IF r.neededPages # <<>>
         THEN /\ selectionProgress' = 10
              /\ Awaiting(i, [r EXCEPT !.progress = <<10>>], "hybridPages",
                   IssueAll(requestCache,
                            [k \in 1..Len(r.neededPages) |->
                               PageUrl(r.neededPages[k], "full")], now))
         ELSE /\ Goto(i, r, "hybridFinal")
              /\ UNCHANGED selectionProgress
  /\ UNCHANGED <<catalogTotal, artworks, loading, currentPage, totalRecords,
                 selectedArtworks, showSelectionWindow, selectionCount,
                 isBulkSelecting, viewingSelected, requestCache, now, nextInv, loads,
                 navs, toggles, clears, typed, faults,
                 lastValue>>
  /\ fetchLog' = fetchLog \cup NewCalls(i)

HybridPagesDone(i) ==
  /\ i \in 1..MaxInv /\ inv[i].pc = "hybridPages" /\ AllSettled(inv[i].slots)
  /\ selectionProgress' = 100
  /\ Goto(i, [AfterResults(inv[i]) EXCEPT !.progress = <<100>>], "hybridFinal")
  /\ UNCHANGED <<catalogTotal, artworks, loading, currentPage, totalRecords,
                 selectedArtworks, showSelectionWindow, selectionCount,
                 isBulkSelecting, viewingSelected, requestCache, now, nextInv, loads,
                 navs, toggles, clears, typed, faults,
                 lastValue>>
  /\ fetchLog' = fetchLog \cup NewCalls(i)

\* The Selection Set is written and the view switched; then the first page of
\* selected ids is requested for display.
HybridFinal(i) ==
  /\ i \in 1..MaxInv /\ inv[i].pc = "hybridFinal"
  /\ LET r == [inv[i] EXCEPT !.progress = <<>>]
     IN  /\ selectedArtworks' = r.newSelected
         /\ viewingSelected' = TRUE
         /\ IF r.newSelected # <<>>
            THEN /\ Awaiting(i, r, "hybridShow", ShowSlots(r.newSelected))
                 /\ UNCHANGED <<loading, isBulkSelecting, selectionProgress,
                                showSelectionWindow, selectionCount>>
            ELSE Finished(i, r)
  /\ UNCHANGED <<catalogTotal, artworks, currentPage, totalRecords, requestCache,
                 now, nextInv, loads, navs, toggles, clears, typed, faults,
                 lastValue>>
  /\ fetchLog' = fetchLog \cup NewCalls(i)

HybridShowDone(i) ==
  /\ i \in 1..MaxInv /\ inv[i].pc = "hybridShow" /\ AllSettled(inv[i].slots)
  /\ artworks' = Shown(inv[i])
  /\ Finished(i, [inv[i] EXCEPT !.progress = <<>>])
  /\ UNCHANGED <<catalogTotal, currentPage, totalRecords, selectedArtworks,
                 viewingSelected, requestCache, now, nextInv, loads, navs, toggles,
                 clears, typed, faults,
                 lastValue>>
  /\ fetchLog' = fetchLog \cup NewCalls(i)

\* ---- ultra-fast strategy: the needed pages in batches of batchSize
\* The requests for every needed page from batch b on, all at once.
BatchSlotsAllAtOnce(r, b) ==
  LET pages == Slice(r.neededPages, (b - 1) * batchSize, Len(r.neededPages))
  IN  IssueAll(requestCache, [k \in 1..Len(pages) |-> PageUrl(pages[k], "full")], now)

\* The requests of batch number b (from 1) of the needed pages.
BatchSlots(r, b) ==
  LET pages == Slice(r.neededPages, (b - 1) * batchSize, b * batchSize)
  IN  IssueAll(requestCache, [k \in 1..Len(pages) |-> PageUrl(pages[k], "full")], now)

StartUltra(i) ==
  /\ i \in 1..MaxInv /\ inv[i].pc = "dispatch"
  /\ Strategy(inv[i].count) = "ultra"
  /\ LET r0 == FromCurrentPage(inv[i], "ultra")
         r == [r0 EXCEPT !.neededPages =
                           NeededPages(r0.page0, r0.total0, r0.remainingToSelect),
                         !.batch = 1,
                         !.processedPages = 0]
     IN  IF r.neededPages # <<>>
         THEN /\ selectionProgress' = 10
              /\ Awaiting(i, [r EXCEPT !.progress = <<10>>], "ultraBatch",
                          BatchSlots(r, 1))
         ELSE /\ Goto(i, r, "ultraFinal")
              /\ UNCHANGED selectionProgress
  /\ UNCHANGED <<catalogTotal, artworks, loading, currentPage, totalRecords,
                 selectedArtworks, showSelectionWindow, selectionCount,
                 isBulkSelecting, viewingSelected, requestCache, now, nextInv, loads,
                 navs, toggles, clears, typed, faults,
                 lastValue>>
  /\ fetchLog' = fetchLog \cup NewCalls(i)

\* A progress after a batch that drops the fraction instead of rounding.
BatchProgressTruncated(processedPages, totalPagesToProcess) ==
  10 + (processedPages * 80) \div totalPagesToProcess

\* The progress reported after a batch.
BatchProgress(processedPages, totalPagesToProcess) ==
  Round(processedPages * 80 + 10 * totalPagesToProcess, totalPagesToProcess)

\* A batch settled: its results are selected from; when the target is not yet
\* reached the progress and the Selection Set are updated and a 10 ms timer is
\* awaited.
UltraBatchDone(i) ==
  /\ i \in 1..MaxInv /\ inv[i].pc = "ultraBatch" /\ AllSettled(inv[i].slots)
  /\ LET r0 == AfterResults(inv[i])
         r == [r0 EXCEPT !.processedPages = r0.processedPages + Len(r0.slots)]
     IN  IF r.remainingToSelect <= 0
         THEN /\ Goto(i, r, "ultraFinal")
              /\ UNCHANGED <<selectionProgress, selectedArtworks>>
         ELSE /\ selectionProgress' =
                   BatchProgress(r.processedPages, Len(r.neededPages))
              /\ selectedArtworks' = r.newSelected
              /\ Goto(i, [r EXCEPT !.progress =
                            <<BatchProgress(r.processedPages, Len(r.neededPages))>>],
                      "ultraDelay")
  /\ UNCHANGED <<catalogTotal, artworks, loading, currentPage, totalRecords,
                 showSelectionWindow, selectionCount, isBulkSelecting,
                 viewingSelected, requestCache, now, nextInv, loads, navs, toggles,
                 clears, typed, faults,
                 lastValue>>
  /\ fetchLog' = fetchLog \cup NewCalls(i)

\* The timer fired: the next batch is issued, if there is one.
UltraDelayDone(i) ==
  /\ NoMicrotask
  /\ i \in 1..MaxInv /\ inv[i].pc = "ultraDelay"
  /\ LET r == [inv[i] EXCEPT !.batch = inv[i].batch + 1, !.progress = <<>>]
     IN  IF (r.batch - 1) * batchSize < Len(r.neededPages)
         THEN Awaiting(i, r, "ultraBatch", BatchSlots(r, r.batch))
         ELSE Goto(i, r, "ultraFinal")
  /\ UNCHANGED <<catalogTotal, artworks, loading, currentPage, totalRecords,
                 selectedArtworks, showSelectionWindow, selectionCount,
                 selectionProgress, isBulkSelecting, viewingSelected, requestCache,
                 now, nextInv, loads, navs, toggles, clears, typed, faults,
                 lastValue>>
  /\ fetchLog' = fetchLog \cup NewCalls(i)

UltraFinal(i) ==
  /\ i \in 1..MaxInv /\ inv[i].pc = "ultraFinal"
  /\ LET r == [inv[i] EXCEPT !.progress = <<100>>]
     IN  /\ selectedArtworks' = r.newSelected
         /\ viewingSelected' = TRUE
         /\ IF r.newSelected # <<>>
            THEN /\ selectionProgress' = 100
                 /\ Awaiting(i, r, "ultraShow", ShowSlots(r.newSelected))
                 /\ UNCHANGED <<loading, isBulkSelecting, showSelectionWindow,
                                selectionCount>>
            ELSE Finished(i, r)
  /\ UNCHANGED <<catalogTotal, artworks, currentPage, totalRecords, requestCache,
                 now, nextInv, loads, navs, toggles, clears, typed, faults,
                 lastValue>>
  /\ fetchLog' = fetchLog \cup NewCalls(i)

UltraShowDone(i) ==
  /\ i \in 1..MaxInv /\ inv[i].pc = "ultraShow" /\ AllSettled(inv[i].slots)
  /\ artworks' = Shown(inv[i])
  /\ Finished(i, [inv[i] EXCEPT !.progress = <<>>])
  /\ UNCHANGED <<catalogTotal, currentPage, totalRecords, selectedArtworks,
                 viewingSelected, requestCache, now, nextInv, loads, navs, toggles,
                 clears, typed, faults,
                 lastValue>>
  /\ fetchLog' = fetchLog \cup NewCalls(i)

\* ---- bulk-id strategy: ids of all needed pages, then one display request
\* An end of the bulk-id strategy that keeps the starting set when the
\* display request failed.
BulkFinishUnlessShowFailed(i, r) ==
  /\ selectedArtworks' = IF r.pc = "bulkShow" /\ r.slots[1].status = "rejected"
                         THEN r.sel0 ELSE r.newSelected
  /\ viewingSelected' = TRUE
  /\ Finished(i, [r EXCEPT !.progress = Append(r.progress, 100)])

BulkFinish(i, r) ==
  /\ selectedArtworks' = r.newSelected
  /\ viewingSelected' = TRUE
  /\ Finished(i, [r EXCEPT !.progress = Append(r.progress, 100)])

StartBulk(i) ==
  /\ i \in 1..MaxInv /\ inv[i].pc = "dispatch"
  /\ Strategy(inv[i].count) = "bulk"
  /\ LET r0 == FromCurrentPage(inv[i], "bulk")
         r == [r0 EXCEPT !.neededPages =
                           NeededPages(r0.page0, r0.total0, r0.remainingToSelect),
                         !.progress = <<10>>]
     IN  IF r.neededPages # <<>>
         THEN /\ selectionProgress' = 20
              /\ Awaiting(i, [r EXCEPT !.progress = <<10, 20>>], "bulkIds",
                   IssueAll(requestCache,
                            [k \in 1..Len(r.neededPages) |->
                               PageUrl(r.neededPages[k], "id")], now))
              /\ UNCHANGED <<selectedArtworks, viewingSelected, loading,
                             isBulkSelecting, showSelectionWindow, selectionCount>>
         ELSE BulkFinish(i, r)
  /\ UNCHANGED <<catalogTotal, artworks, currentPage, totalRecords, requestCache,
                 now, nextInv, loads, navs, toggles, clears, typed, faults,
                 lastValue>>
  /\ fetchLog' = fetchLog \cup NewCalls(i)

\* The id requests settled: the collected ids are added in request order until
\* the target is reached, then the first page of ids is requested for display.
BulkIdsDone(i) ==
  /\ i \in 1..MaxInv /\ inv[i].pc = "bulkIds" /\ AllSettled(inv[i].slots)
  /\ LET r0 == inv[i]
         got == SelectFrom(CollectIds(r0.slots), r0.newSelected, r0.remainingToSelect)
         r == [r0 EXCEPT !.newSelected = got.sel, !.remainingToSelect = got.remaining,
                         !.progress = <<50, 80>>]
     IN  IF r.newSelected # <<>>
         THEN /\ selectionProgress' = 80
              /\ Awaiting(i, r, "bulkShow", ShowSlots(r.newSelected))
              /\ UNCHANGED <<selectedArtworks, viewingSelected, loading,
                             isBulkSelecting, showSelectionWindow, selectionCount>>
         ELSE BulkFinish(i, r)
  /\ UNCHANGED <<catalogTotal, artworks, currentPage, totalRecords, requestCache,
                 now, nextInv, loads, navs, toggles, clears, typed, faults,
                 lastValue>>
  /\ fetchLog' = fetchLog \cup NewCalls(i)

BulkShowDone(i) ==
  /\ i \in 1..MaxInv /\ inv[i].pc = "bulkShow" /\ AllSettled(inv[i].slots)
  /\ artworks' = Shown(inv[i])
  /\ BulkFinish(i, [inv[i] EXCEPT !.progress = <<>>])
  /\ UNCHANGED <<catalogTotal, currentPage, totalRecords, requestCache, now, nextInv,
                 loads, navs, toggles, clears, typed, faults,
                 lastValue>>
  /\ fetchLog' = fetchLog \cup NewCalls(i)

\* ------------------------------------------------------------ the system
\* The steps of the handlers: settling requests, timers and continuations.
Handlers ==
  \/ \E i \in 1..MaxInv : \E k \in 1..Len(inv[i].slots), o \in Outcomes :
       SettleFetch(i, k, o)
  \/ \E i \in 1..MaxInv : StartSmall(i)
  \/ \E i \in 1..MaxInv : SmallPageDone(i)
  \/ \E i \in 1..MaxInv : StartHybrid(i)
  \/ \E i \in 1..MaxInv : HybridPagesDone(i)
  \/ \E i \in 1..MaxInv : HybridFinal(i)
  \/ \E i \in 1..MaxInv : HybridShowDone(i)
  \/ \E i \in 1..MaxInv : StartUltra(i)
  \/ \E i \in 1..MaxInv : UltraBatchDone(i)
  \/ \E i \in 1..MaxInv : UltraDelayDone(i)
  \/ \E i \in 1..MaxInv : UltraFinal(i)
  \/ \E i \in 1..MaxInv : UltraShowDone(i)
  \/ \E i \in 1..MaxInv : StartBulk(i)
  \/ \E i \in 1..MaxInv : BulkIdsDone(i)
  \/ \E i \in 1..MaxInv : BulkShowDone(i)

\* One bulk-select request among the other user events.
Next ==
  \/ \E p \in 1..PageCount : onPageChange(p)
  \/ ToggleView
  \/ ClearSelection
  \/ \E l \in loads, o \in Outcomes : FetchArtworksDone(l, o)
  \/ \E l \in loads, o \in Outcomes : FetchSelectedDone(l, o)
  \/ \E v \in ToggleValues(artworks, selectedArtworks) : onSelectionChange(v)
  \/ ToggleWindow
  \/ \E t \in CountInputs : nextInv = 1 /\ TypeCount(t)
  \/ \E src \in Sources : nextInv = 1 /\ Invoke(src)
  \/ Handlers

Spec == Init /\ [][Next]_vars

\* Bulk-select requests one after or during another, without other events.
NextRequests ==
  \/ ToggleWindow
  \/ \E t \in CountInputs : TypeCount(t)
  \/ \E src \in Sources : Invoke(src)
  \/ Handlers

SpecRequests == Init /\ [][NextRequests]_vars

\* The same system when every request eventually settles and every handler
\* that can run does run, as the event loop guarantees.
SpecLive == Init /\ [][Next]_vars /\ WF_vars(Handlers)

\* ------------------------------------------------ the page cache over time
\* The instants Date.now() is read at: just before, at and just after the
\* lifetime of an entry stored at 0.
ClockValues == {0, CACHE_DURATION - 1, CACHE_DURATION, CACHE_DURATION + 1}

\* Time passes between two macrotasks.
Tick ==
  /\ NoMicrotask
  /\ \E t \in ClockValues : t > now /\ now' = t
  /\ UNCHANGED <<catalogTotal, artworks, loading, currentPage, totalRecords,
                 selectedArtworks, showSelectionWindow, selectionCount,
                 selectionProgress, isBulkSelecting, viewingSelected, requestCache,
                 inv, nextInv, loads, navs, toggles, clears, typed, faults,
                 lastValue, fetchLog>>

\* The counts typed while the cache is followed over time: one request of
\* each strategy, which fetches the same pages when it is made again.
CacheInputs == {<<"3", "0">>, <<"5", "1">>, <<"1", "0", "1">>, <<"5", "0", "1">>}

\* Bulk-select requests made with the Select Rows button, one after another,
\* while time passes.
NextCache ==
  \/ Tick
  \/ ToggleWindow
  \/ \E t \in CacheInputs : TypeCount(t)
  \/ Invoke("selectRows")
  \/ Handlers

SpecCache == Init /\ [][NextCache]_vars

\* ------------------------------------------------ a catalog of many pages
\* A catalog whose pages after the first fill more than one batch.
BatchCatalogTotals == {150}

\* The application showing page 1 of such a catalog.
InitBatch ==
  /\ catalogTotal \in BatchCatalogTotals
  /\ currentPage = 1
  /\ artworks = RemotePage(catalogTotal, 1)
  /\ totalRecords = catalogTotal
  /\ selectedArtworks \in InitialSelections
  /\ loading = FALSE
  /\ showSelectionWindow = FALSE
  /\ selectionCount = <<>>
  /\ selectionProgress = 0
  /\ isBulkSelecting = FALSE
  /\ viewingSelected = FALSE
  /\ requestCache = {}
  /\ now = 0
  /\ inv = [i \in 1..MaxInv |-> IdleInv]
  /\ nextInv = 1
  /\ loads = {}
  /\ navs = 0
  /\ toggles = 0
  /\ clears = 0
  /\ typed = 0
  /\ faults = 0
  /\ lastValue = <<>>
  /\ fetchLog = {}

\* The counts typed on that catalog: one request of each strategy.
BatchInputs == {<<"3", "0">>, <<"5", "1">>, <<"1", "5", "0">>, <<"5", "0", "1">>}

\* One bulk-select request made with the Select Rows button.
NextBatch ==
  \/ ToggleWindow
  \/ \E t \in BatchInputs : nextInv = 1 /\ TypeCount(t)
  \/ nextInv = 1 /\ Invoke("selectRows")
  \/ Handlers

SpecBatch == InitBatch /\ [][NextBatch]_vars

\* ------------------------------------ the earlier dispatcher (part_000)
\* The version of handleSelectNRows kept in src/unnamed/part_000: a target
\* above MathThreshold is served by handleUltraFastSelection, which selects
\* the ids 1..min(count, totalRecords) without a request; every other target
\* selects from the rendered page, requests every page up to endPage at once
\* and selects from the results in request order.
MathThreshold == 5000

\* A catalog with more records than MathThreshold.
VariantCatalogTotals == {5010}

\* The application showing one of the last three pages of such a catalog,
\* with nothing selected or the first two rows of the page checked.
InitVariant ==
  /\ catalogTotal \in VariantCatalogTotals
  /\ \E p \in (Ceil(catalogTotal, rowsPerPage) - 2)..Ceil(catalogTotal, rowsPerPage) :
       /\ currentPage = p
       /\ artworks = RemotePage(catalogTotal, p)
       /\ selectedArtworks \in
            {<<>>, <<RemotePage(catalogTotal, p)[2], RemotePage(catalogTotal, p)[1]>>}
  /\ totalRecords = catalogTotal
  /\ loading = FALSE
  /\ showSelectionWindow = FALSE
  /\ selectionCount = <<>>
  /\ selectionProgress = 0
  /\ isBulkSelecting = FALSE
  /\ viewingSelected = FALSE
  /\ requestCache = {}
  /\ now = 0
  /\ inv = [i \in 1..MaxInv |-> IdleInv]
  /\ nextInv = 1
  /\ loads = {}
  /\ navs = 0
  /\ toggles = 0
  /\ clears = 0
  /\ typed = 0
  /\ faults = 0
  /\ lastValue = <<>>
  /\ fetchLog = {}

\* handleUltraFastSelection for a count above MathThreshold: a new set of the
\* ids startId..endId, written in place of the Selection Set.
MathSelection(count, total) ==
  LET startId == 1
      endId == Min(startId + count - 1, total)
  IN  [id \in 1..Max(0, endId - startId + 1) |-> startId + id - 1]

\* The pages startPage + 1 .. endPage the general path requests.
VariantPages(page, total, size, count) ==
  LET maxPages == Ceil(total, rowsPerPage)
      pagesNeeded == Ceil(count - size, rowsPerPage)
      endPage == Min(page + pagesNeeded, maxPages)
  IN  [k \in 1..Max(0, endPage - page) |-> page + k]

\* The loop over the settled results from result r.batch + 1 on: a request
\* that failed by transport error counts for nothing, a body without data
\* throws, and after every third processed page the loop pauses on a timer.
\* a = <<k, sel, remaining, processedPages>>.
VariantDrain(r) ==
  LET loop[a \in Nat \X Seq(Int) \X Int \X Nat] ==
        IF a[1] >= Len(r.slots)
        THEN [how |-> "end", k |-> a[1], sel |-> a[2], remaining |-> a[3],
              processed |-> a[4]]
        ELSE LET s == r.slots[a[1] + 1]
             IN  IF s.status = "rejected"
                 THEN loop[<<a[1] + 1, a[2], a[3], a[4]>>]
                 ELSE IF ~s.value.hasData
                 THEN [how |-> "thrown", k |-> a[1] + 1, sel |-> a[2],
                       remaining |-> a[3], processed |-> a[4]]
                 ELSE LET next == SelectFrom(s.value.data, a[2], a[3])
                      IN  IF (a[4] + 1) % 3 = 0
                          THEN [how |-> "pause", k |-> a[1] + 1, sel |-> next.sel,
                                remaining |-> next.remaining,
                                processed |-> a[4] + 1]
                          ELSE loop[<<a[1] + 1, next.sel, next.remaining, a[4] + 1>>]
  IN  loop[<<r.batch, r.newSelected, r.remainingToSelect, r.processedPages>>]

\* The general path runs on from result r.batch + 1: to the timer after a
\* third page, to its final write, or to the catch block.
VariantContinue(i, r) ==
  LET d == VariantDrain(r)
      r2 == [r EXCEPT !.newSelected = d.sel, !.remainingToSelect = d.remaining,
                      !.processedPages = d.processed, !.batch = d.k]
      progress == Round(d.processed * 100, Len(r.neededPages) + 1)
  IN  IF d.how = "pause"
      THEN /\ selectionProgress' = progress
           /\ selectedArtworks' = d.sel
           /\ inv' = [inv EXCEPT ![i] = [r2 EXCEPT !.pc = "variantDelay",
                                                   !.progress = <<progress>>]]
           /\ UNCHANGED <<loading, isBulkSelecting, showSelectionWindow,
                          selectionCount>>
      ELSE IF d.how = "end"
      THEN /\ selectedArtworks' = d.sel
           /\ Finished(i, r2)
      ELSE /\ inv' = [inv EXCEPT ![i] = [r2 EXCEPT !.pc = "done",
                                                   !.outcome = "failed",
                                                   !.slots = <<>>]]
           /\ loading' = FALSE
           /\ isBulkSelecting' = FALSE
           /\ selectionProgress' = 0
           /\ UNCHANGED <<selectedArtworks, showSelectionWindow, selectionCount>>

\* The earlier handleSelectNRows after its checks.
StartVariant(i) ==
  /\ i \in 1..MaxInv /\ inv[i].pc = "dispatch"
  /\ IF inv[i].count > MathThreshold
     THEN LET r == [inv[i] EXCEPT !.strategy = "math",
                                  !.newSelected =
                                    MathSelection(inv[i].count, inv[i].total0),
                                  !.progress = <<100>>]
          IN  /\ selectedArtworks' = r.newSelected
              /\ Finished(i, r)
     ELSE LET r0 == FromCurrentPage(inv[i], "general")
              r == [r0 EXCEPT !.neededPages =
                                VariantPages(r0.page0, r0.total0, Len(r0.sel0),
                                             r0.count),
                              !.processedPages = 1,
                              !.batch = 0]
          IN  IF r.neededPages # <<>>
              THEN /\ Awaiting(i, r, "variantPages",
                        IssueAll(requestCache,
                                 [k \in 1..Len(r.neededPages) |->
                                    PageUrl(r.neededPages[k], "full")], now))
                   /\ UNCHANGED <<selectedArtworks, loading, isBulkSelecting,
                                  selectionProgress, showSelectionWindow,
                                  selectionCount>>
              ELSE VariantContinue(i, r)
  /\ UNCHANGED <<catalogTotal, artworks, currentPage, totalRecords, viewingSelected,
                 requestCache, now, nextInv, loads, navs, toggles, clears, typed,
                 faults, lastValue>>
  /\ fetchLog' = fetchLog \cup NewCalls(i)

\* Promise.allSettled of the page requests resolved.
VariantPagesDone(i) ==
  /\ i \in 1..MaxInv /\ inv[i].pc = "variantPages" /\ AllSettled(inv[i].slots)
  /\ VariantContinue(i, [inv[i] EXCEPT !.progress = <<>>])
  /\ UNCHANGED <<catalogTotal, artworks, currentPage, totalRecords, viewingSelected,
                 requestCache, now, nextInv, loads, navs, toggles, clears, typed,
                 faults, lastValue, fetchLog>>

\* The 10 ms timer of the result loop fired.
VariantDelayDone(i) ==
  /\ NoMicrotask
  /\ i \in 1..MaxInv /\ inv[i].pc = "variantDelay"
  /\ VariantContinue(i, [inv[i] EXCEPT !.progress = <<>>])
  /\ UNCHANGED <<catalogTotal, artworks, currentPage, totalRecords, viewingSelected,
                 requestCache, now, nextInv, loads, navs, toggles, clears, typed,
                 faults, lastValue, fetchLog>>

\* One bulk-select request of the earlier dispatcher, made with the Select
\* Rows button, after at most MaxEvents row clicks.
NextVariant ==
  \/ ToggleWindow
  \/ \E v \in ToggleValues(artworks, selectedArtworks) : onSelectionChange(v)
  \/ \E t \in VariantInputs : nextInv = 1 /\ TypeCount(t)
  \/ nextInv = 1 /\ Invoke("selectRows")
  \/ \E i \in 1..MaxInv : \E k \in 1..Len(inv[i].slots), o \in Outcomes :
       SettleFetch(i, k, o)
  \/ \E i \in 1..MaxInv : StartVariant(i)
  \/ \E i \in 1..MaxInv : VariantPagesDone(i)
  \/ \E i \in 1..MaxInv : VariantDelayDone(i)

SpecVariant == InitVariant /\ [][NextVariant]_vars

\* ================================================================ claims
Succeeded(r) == r.pc = "done" /\ r.outcome = "success"

\* C1: a request for N with size < N <= totalRecords that completes with every
\* fetch succeeding leaves a Selection Set of exactly N members.
C1_SizeReachesTarget ==
  \A i \in 1..MaxInv :
    (Succeeded(inv[i]) /\ ~inv[i].failed /\ inv[i].count <= inv[i].total0)
      => Len(inv[i].newSelected) = inv[i].count

\* C2: a request whose target exceeds the records available is rejected with
\* the capacity warning, before any fetch, and writes nothing.
C2_CapacityRejected ==
  \A i \in 1..MaxInv :
    (inv[i].pc # "idle" /\ inv[i].outcome \notin {"invalid", "already"}
       /\ inv[i].count > inv[i].total0)
      => inv[i].outcome = "capacity" /\ inv[i].issued = 0

\* C3: at most one bulk-select invocation is in flight at any time.
C3_OneInFlight == Cardinality({i \in 1..MaxInv : InFlight(inv[i])}) <= 1

\* C4: a selection-toggle event leaves the membership of every identifier
\* that is not visible on the rendered page as it was.
C4_PageLocal ==
  [][toggles' # toggles =>
       \A id \in (Range(selectedArtworks) \cup Range(selectedArtworks'))
                   \ Range(artworks) :
         Has(selectedArtworks, id) <=> Has(selectedArtworks', id)]_vars

C4_Witness ==
  /\ toggles > 0
  /\ nextInv = 1
  /\ \E id \in Range(selectedArtworks) : ~Has(artworks, id)
  /\ \E id \in Range(artworks) : Has(selectedArtworks, id)

\* C5: after a selection-toggle event reporting the checked rows C of the
\* visible rows V, the Selection Set is (old set minus V) union C, and the
\* same event applied again changes nothing.
C5_Reconciled ==
  [][toggles' # toggles =>
       /\ Range(lastValue') \subseteq Range(artworks)
       /\ Range(selectedArtworks') =
            (Range(selectedArtworks) \ Range(artworks)) \cup Range(lastValue')
       /\ Reconciled(selectedArtworks', artworks, lastValue') = selectedArtworks'
    ]_vars

C5_Witness ==
  /\ toggles > 0
  /\ nextInv = 1
  /\ lastValue # <<>>
  /\ \E id \in Range(artworks) : ~Has(lastValue, id) /\ ~Has(selectedArtworks, id)
  /\ \E id \in Range(selectedArtworks) : ~Has(artworks, id)

\* C6, as stated: the strategy is chosen by the number of additional items,
\* N minus the size of the starting selection.
C6_ByAdditional ==
  \A i \in 1..MaxInv :
    inv[i].strategy # "" =>
      LET additional == inv[i].count - Len(inv[i].sel0)
      IN  inv[i].strategy =
            IF additional <= 50 THEN "small"
            ELSE IF additional <= 100 THEN "hybrid"
            ELSE IF additional <= 500 THEN "ultra"
            ELSE "bulk"

\* C6, amended: the strategy is chosen by the target count N itself, whatever
\* the starting selection: N <= 50 small, 51..100 hybrid, 101..500
\* parallel-batched, above 500 bulk-id.
C6_ByTarget ==
  \A i \in 1..MaxInv :
    inv[i].strategy # "" =>
      inv[i].strategy =
        IF inv[i].count <= 50 THEN "small"
        ELSE IF inv[i].count <= 100 THEN "hybrid"
        ELSE IF inv[i].count <= 500 THEN "ultra"
        ELSE "bulk"

C6_Witness ==
  \E i \in 1..MaxInv :
    /\ inv[i].count = 500 /\ inv[i].strategy = "ultra"
    /\ inv[i].sel0 # <<>>

\* The text is a positive decimal integer.
IsPositiveInteger(text) ==
  /\ text # <<>>
  /\ \A k \in 1..Len(text) : IsDigit(text[k])
  /\ DigitsValue(text, 0) > 0

\* C7: a request whose target is empty, not a number, not positive, or not
\* greater than the size of the Selection Set changes nothing and issues no
\* fetch.
C7_RejectionMutatesNothing ==
  [][(nextInv' # nextInv
        /\ (~IsPositiveInteger(selectionCount)
              \/ DigitsValue(selectionCount, 0) <= Len(selectedArtworks)))
       => /\ UNCHANGED <<selectedArtworks, isBulkSelecting, loading,
                         selectionProgress, viewingSelected, requestCache, loads,
                         artworks, currentPage>>
          /\ inv'[nextInv].pc = "done"
          /\ inv'[nextInv].outcome \in {"invalid", "already"}
          /\ inv'[nextInv].issued = 0]_vars

C7_Witness ==
  \E i \in 1..MaxInv :
    /\ inv[i].pc = "done" /\ inv[i].outcome = "already"
    /\ inv[i].count > 0 /\ selectedArtworks # <<>>

\* C8: after a bulk-select for N has completed, the same request made again
\* with nothing else changed is rejected as target <= current size.
C8_SecondRejected ==
  (/\ Succeeded(inv[1]) /\ ~inv[1].failed
   /\ inv[2].pc # "idle" /\ ~inv[2].overlap
   /\ inv[2].count = inv[1].count
   /\ inv[1].count <= inv[1].total0)
    => inv[2].outcome = "already" /\ inv[2].issued = 0

\* C9: every Selection Set value a bulk-select invocation writes contains the
\* Selection Set as it was when the invocation started.
C9_WritesKeepMembers ==
  [][\A i \in 1..MaxInv :
       (InFlight(inv[i]) /\ inv'[i] # inv[i]
          /\ selectedArtworks' # selectedArtworks)
         => Range(inv[i].sel0) \subseteq Range(selectedArtworks')]_vars

C9_Witness ==
  \E i \in 1..MaxInv :
    /\ inv[i].pc = "ultraDelay"
    /\ inv[i].sel0 # <<>>
    /\ selectedArtworks = inv[i].newSelected
    /\ Len(selectedArtworks) > Len(inv[i].sel0)

\* C10: every invocation that passed validation finishes, and the step that
\* finishes it leaves isBulkSelecting and loading false.
C10_BusyCleared ==
  /\ \A i \in 1..MaxInv : InFlight(inv[i]) ~> inv[i].pc = "done"
  /\ [][\A i \in 1..MaxInv :
          (InFlight(inv[i]) /\ inv'[i].pc = "done")
            => ~isBulkSelecting' /\ ~loading']_vars

C10_Witness ==
  \E i \in 1..MaxInv :
    /\ Succeeded(inv[i]) /\ inv[i].failed
    /\ inv[i].strategy = "hybrid"
    /\ ~isBulkSelecting /\ ~loading

\* C11: the step that finishes an accepted invocation leaves the Selection
\* Progress at 100.
C11_ProgressLeftAt100 ==
  [][\A i \in 1..MaxInv :
       (InFlight(inv[i]) /\ inv'[i].pc = "done") => selectionProgress' = 100]_vars

NonDecreasing(seq) == \A k \in 1..(Len(seq) - 1) : seq[k] <= seq[k + 1]

\* The values the Selection Progress takes by a step of invocation j while an
\* invocation is in flight: the value before, each update of the step, and
\* the value after (unless the step ends the only invocation in flight).
ProgressUpdates(j) ==
  <<selectionProgress>> \o inv'[j].progress \o
    (IF \E i \in 1..MaxInv : InFlight(inv'[i]) THEN <<selectionProgress'>> ELSE <<>>)

\* C12: while an invocation is in flight the Selection Progress stays within
\* 0..100 and no update is below the one before it.
C12_ProgressMonotone ==
  [][\A j \in 1..MaxInv :
       (inv'[j] # inv[j] /\ \E i \in 1..MaxInv : InFlight(inv[i]))
         => /\ NonDecreasing(ProgressUpdates(j))
            /\ \A k \in 1..Len(ProgressUpdates(j)) : ProgressUpdates(j)[k] \in 0..100
    ]_vars

\* C13: a request a strategy issues is answered from the cache only when the
\* cache holds an entry for that url whose age does not exceed the TTL, and
\* with that entry's payload; when there is no entry, or only one older than
\* the TTL, the request goes to the network.
C13_NeverStale ==
  [][\A i \in 1..MaxInv :
       inv'[i].issued > inv[i].issued =>
         \A k \in 1..Len(inv'[i].slots) :
           LET slot == inv'[i].slots[k]
               stored == {e \in requestCache : e.url = slot.url}
           IN  /\ slot.status = "fulfilled" =>
                    \E e \in stored : /\ now - e.timestamp <= CACHE_DURATION
                                      /\ slot.value = e.data
               /\ (\A e \in stored : now - e.timestamp > CACHE_DURATION) =>
                    slot.status = "inflight"]_vars

C13_Witness ==
  /\ faults = 0
  /\ \E c \in fetchLog : ~c.net /\ c.start = CACHE_DURATION - 1
  /\ \E d \in fetchLog : d.net /\ d.n > 0 /\ d.start = CACHE_DURATION + 1

\* C14: as long as no request has failed, of two requests for the same url
\* started within the TTL of each other the later one issues no network
\* request; and a request started when the entry of its url is older than the
\* TTL issues one.
C14_OneNetworkCall ==
  /\ [](faults = 0 =>
          \A a, b \in fetchLog :
            (a.url = b.url /\ a.n < b.n /\ b.start - a.start <= CACHE_DURATION)
              => ~b.net)
  /\ [][\A i \in 1..MaxInv :
          inv'[i].issued > inv[i].issued =>
            \A k \in 1..Len(inv'[i].slots) :
              (\E e \in requestCache :
                 /\ e.url = inv'[i].slots[k].url
                 /\ now - e.timestamp > CACHE_DURATION)
                => inv'[i].slots[k].status = "inflight"]_vars


\* C15: every successful gateway response -- a list request of a page change
\* or reload as well as a request of a selection strategy or a bulk-by-ids
\* request -- is written into the page cache under its request URL: when a
\* request settles with a success response, the cache afterwards holds the
\* body under the URL of the request.
C15_SuccessCached ==
  [][faults' = faults =>
       /\ \A l \in loads \ loads' :
            \E e \in requestCache' :
              e.url = l.url /\ e.data = Body(catalogTotal, l.url)
       /\ \A i \in 1..MaxInv :
            (inv[i].pc \in WaitPcs /\ inv'[i].pc = inv[i].pc) =>
              \A k \in 1..Len(inv[i].slots) :
                (inv[i].slots[k].status = "inflight" /\
                 inv'[i].slots[k].status = "fulfilled") =>
                  \E e \in requestCache' :
                    /\ e.url = inv[i].slots[k].url
                    /\ e.data = Body(catalogTotal, e.url)]_vars


\* C16: a gateway fetch fails on a transport failure and on a non-success
\* response: the body of a non-success response is never the value a call of
\* fetchWithCache settled with, and never an entry of the cache from which a
\* later call would be served.
C16_NonSuccessFails ==
  /\ \A i \in 1..MaxInv : \A k \in 1..Len(inv[i].slots) :
       inv[i].slots[k].status = "fulfilled" => inv[i].slots[k].value # ErrorBody
  /\ \A e \in requestCache : e.data # ErrorBody


\* s without the repetitions of its elements, in the order of first occurrence.
Dedup(s) ==
  LET keep == {k \in 1..Len(s) : \A j \in 1..(k - 1) : s[j] # s[k]}
      rank(k) == Cardinality({j \in keep : j <= k})
  IN  [n \in 1..Cardinality(keep) |-> s[CHOOSE k \in keep : rank(k) = n]]

\* The ids of the pages whose requests succeeded, in the order of the pages.
FetchedIds(slots) ==
  LET c[k \in 0..Len(slots)] ==
        IF k = 0 THEN << >>
        ELSE c[k - 1] \o
             (IF slots[k].status = "fulfilled" /\ slots[k].value.hasData
              THEN slots[k].value.data ELSE << >>)
  IN  c[Len(slots)]

\* The Selection Set a run r that awaits its pages is to end with: the set it
\* started from, then the unselected ids of the rendered page and of the
\* fetched pages, up to r.count ids in total.
ExpectedSelection(r) ==
  LET fresh == Dedup(SelectSeq(r.art0 \o FetchedIds(r.slots),
                               LAMBDA id : ~Has(r.sel0, id)))
  IN  r.sel0 \o Slice(fresh, 0, Min(Len(fresh), Max(0, r.count - Len(r.sel0))))

\* C17: in the hybrid strategy a failed page request does not abort the run:
\* the results are processed into the starting set plus the unselected ids of
\* the rendered page plus the ids of every successfully fetched page in page
\* order, up to N in total; that set is written as the Selection Set, and the
\* run ends with the success notice.
C17_HybridPartialFailure ==
  [][\A i \in 1..MaxInv :
       /\ (inv[i].pc = "hybridPages" /\ inv'[i].pc # "hybridPages") =>
            /\ inv'[i].pc = "hybridFinal"
            /\ inv'[i].newSelected = ExpectedSelection(inv[i])
       /\ (inv[i].pc = "hybridFinal" /\ inv'[i].pc # "hybridFinal") =>
            /\ selectedArtworks' = inv[i].newSelected
            /\ inv'[i].newSelected = inv[i].newSelected
            /\ inv'[i].pc \in {"hybridShow", "done"}
       /\ (inv[i].pc = "hybridShow" /\ inv'[i].pc # "hybridShow") =>
            /\ inv'[i].pc = "done"
            /\ inv'[i].newSelected = inv[i].newSelected
       /\ (inv[i].strategy = "hybrid" /\ InFlight(inv[i]) /\ inv'[i].pc = "done") =>
            inv'[i].outcome = "success"]_vars

\* A hybrid run from page 1 of 30 records has ended with the success notice
\* after the request for page 2 failed and that for page 3 succeeded: the
\* Selection Set has ids of page 3 and none of page 2.
C17_Witness ==
  \E i \in 1..MaxInv :
    /\ inv[i].pc = "done" /\ inv[i].strategy = "hybrid"
    /\ inv[i].outcome = "success" /\ inv[i].failed
    /\ inv[i].page0 = 1 /\ inv[i].total0 = 30
    /\ selectedArtworks = inv[i].newSelected
    /\ Has(selectedArtworks, 2 * rowsPerPage + 1)
    /\ ~Has(selectedArtworks, rowsPerPage + 1)


\* C18: in the small strategy a failed request for a page contributes no
\* record and the run continues: when the awaited page failed, the target is
\* not reached and the page budget is not used up, the next page is requested
\* and the ids selected so far are kept.
C18_SmallContinues ==
  [][\A i \in 1..MaxInv :
       (/\ inv[i].pc = "smallPage" /\ inv'[i] # inv[i]
        /\ AllSettled(inv[i].slots)
        /\ (inv[i].slots[1].status = "rejected" \/ ~inv[i].slots[1].value.hasData)
        /\ inv[i].remainingToSelect > 0
        /\ inv[i].page < inv[i].lastPage)
         => /\ inv'[i].pc = "smallPage"
            /\ inv'[i].page = inv[i].page + 1
            /\ inv'[i].newSelected = inv[i].newSelected]_vars


\* C19: in the bulk-id strategy, when every request of the id collection
\* failed, the operation is aborted: the run ends there without the success
\* notice, with the progress and the busy flag cleared and the Selection Set
\* left as it is.
C19_BulkAbortsOnTotalFailure ==
  [][\A i \in 1..MaxInv :
       (/\ inv[i].pc = "bulkIds" /\ inv'[i] # inv[i]
        /\ AllSettled(inv[i].slots)
        /\ \A k \in 1..Len(inv[i].slots) :
             inv[i].slots[k].status = "rejected" \/ ~inv[i].slots[k].value.hasData)
         => /\ inv'[i].pc = "done"
            /\ inv'[i].outcome # "success"
            /\ selectionProgress' = 0
            /\ ~isBulkSelecting'
            /\ selectedArtworks' = selectedArtworks]_vars


\* The step is the user's View Selected / View All toggle.
ViewToggled == navs' = navs + 1 /\ currentPage' = currentPage

\* The step is the completion of a bulk-id run.
BulkCompletes ==
  \E i \in 1..MaxInv :
    inv'[i].strategy = "bulk" /\ InFlight(inv[i]) /\ inv'[i].pc = "done"

\* The step is a hybrid or parallel-batched run writing its final Selection Set.
RunWritesFinalSet ==
  \E i \in 1..MaxInv :
    inv[i].pc \in {"hybridFinal", "ultraFinal"} /\ inv'[i].pc # inv[i].pc

\* What no step of the small strategy, no change to another page and no
\* selection toggle does: change the view mode.
ViewKeptByOthers ==
  /\ (\E i \in 1..MaxInv : inv'[i].strategy = "small" /\ inv'[i] # inv[i])
       => viewingSelected' = viewingSelected
  /\ (navs' = navs + 1 /\ currentPage' # currentPage)
       => viewingSelected' = viewingSelected
  /\ toggles' = toggles + 1 => viewingSelected' = viewingSelected

\* The view mode goes back to browsing only by the user's toggle or by Clear
\* Selection.
ViewBackExplicit ==
  (viewingSelected /\ ~viewingSelected') => (ViewToggled \/ clears' = clears + 1)

\* C20 as stated: the view mode goes from browsing to the selected rows only
\* by the user's toggle or by the completion of a bulk-id run, never by the
\* small, hybrid or parallel-batched strategy, a page change or a selection
\* toggle; it goes back only by an explicit user action.
C20_ViewOnlyByToggleOrBulk ==
  [][/\ (~viewingSelected /\ viewingSelected') => (ViewToggled \/ BulkCompletes)
     /\ ViewKeptByOthers
     /\ ViewBackExplicit]_vars

\* C20 amended: the view mode goes from browsing to the selected rows only by
\* the user's toggle, by the completion of a bulk-id run, or by a hybrid or
\* parallel-batched run writing its final Selection Set; never by the small
\* strategy, a page change or a selection toggle; it goes back only by an
\* explicit user action.
C20_ViewTransitions ==
  [][/\ (~viewingSelected /\ viewingSelected')
          => (ViewToggled \/ BulkCompletes \/ RunWritesFinalSet)
     /\ ViewKeptByOthers
     /\ ViewBackExplicit]_vars

\* A hybrid run switched to the view of the selected rows: the user never
\* pressed the toggle.
C20_Witness ==
  /\ viewingSelected /\ navs = 0
  /\ \E i \in 1..MaxInv :
       inv[i].strategy = "hybrid" /\ inv[i].pc \in {"hybridShow", "done"}


\* The step is a page change: the paginator reported a page and the view
\* mode stayed as it was.
PageChanged == navs' = navs + 1 /\ viewingSelected' = viewingSelected

C22_ClearResets ==
  [][clears' = clears + 1 => (selectedArtworks' = << >> /\ ~viewingSelected')]_vars

\* The selection was cleared after a hybrid run had written it and switched
\* to the view of the selected rows.
C22_Witness ==
  /\ clears = 1 /\ selectedArtworks = << >> /\ ~viewingSelected
  /\ \E i \in 1..MaxInv :
       /\ inv[i].strategy = "hybrid" /\ inv[i].pc = "done"
       /\ inv[i].newSelected # << >>


\* C23: selections persist across page navigation: neither a page change, in
\* either view mode, nor the settling of the request it made, with a success
\* or a failure, changes the Selection Set.
C23_SelectionPersists ==
  [][(PageChanged \/ loads \ loads' # {}) => selectedArtworks' = selectedArtworks]_vars

\* A page was changed in the browsing view with two rows selected, its list
\* request failed, and the two rows are still the selection.
C23_Witness ==
  /\ navs = 1 /\ ~viewingSelected /\ nextInv = 1
  /\ loads = {} /\ faults = 1
  /\ selectedArtworks = <<2, 1>>


\* C24: the small strategy first takes the unselected records of the rendered
\* page, then requests the pages after the current one in turn, one request
\* at a time and at most three, and makes no request once the target is
\* reached: its k-th request is for page currentPage + k, k <= 3, it is the
\* only request of the run in flight, it is made with ids still missing and
\* with every record of the rendered page selected.
C24_SmallSequential ==
  [][\A i \in 1..MaxInv :
       (inv'[i].strategy = "small" /\ inv'[i].issued > inv[i].issued) =>
         /\ inv'[i].issued = inv[i].issued + 1
         /\ inv'[i].issued <= 3
         /\ Len(inv'[i].slots) = 1
         /\ inv'[i].slots[1].url = PageUrl(inv'[i].page0 + inv'[i].issued, "full")
         /\ \A k \in 1..Len(inv[i].slots) : inv[i].slots[k].status # "inflight"
         /\ Len(inv'[i].newSelected) < inv'[i].count
         /\ \A k \in 1..Len(inv'[i].art0) :
              Has(inv'[i].newSelected, inv'[i].art0[k])]_vars

\* The run of the example on a catalog of 30 records: from page 1 with
\* nothing selected, a target of 30 ended after exactly the requests for pages
\* 2 and 3 with 30 ids selected.
C24_Witness ==
  \E i \in 1..MaxInv :
    /\ inv[i].strategy = "small" /\ inv[i].pc = "done" /\ inv[i].count = 30
    /\ inv[i].page0 = 1 /\ inv[i].sel0 = << >> /\ inv[i].total0 = 30
    /\ inv[i].issued = 2 /\ faults = 0
    /\ Len(selectedArtworks) = 30
    /\ {c.url.page : c \in fetchLog} = {2, 3}


\* The requests of invocation i that have not settled.
Unsettled(r) == {k \in 1..Len(r.slots) : r.slots[k].status = "inflight"}

\* C25: during one parallel-batched run at most 10 of its page requests are
\* in flight at any time, and no request of a later batch is made before
\* every request of the batch before it has settled: a batch is requested
\* with no request of the run unsettled, and it is the next 10 (or fewer)
\* needed pages after those already processed.
C25_BatchesBounded ==
  /\ [](\A i \in 1..MaxInv :
          inv[i].strategy = "ultra" => Cardinality(Unsettled(inv[i])) <= 10)
  /\ [][\A i \in 1..MaxInv :
          (inv'[i].pc = "ultraBatch" /\ inv'[i].issued > inv[i].issued) =>
            /\ Unsettled(inv[i]) = {}
            /\ inv[i].processedPages = inv[i].issued
            /\ Len(inv'[i].slots) =
                 Min(10, Len(inv'[i].neededPages) - inv[i].processedPages)
            /\ \A k \in 1..Len(inv'[i].slots) :
                 inv'[i].slots[k].url =
                   PageUrl(inv'[i].neededPages[inv[i].processedPages + k], "full")]_vars

\* The second batch of a run is in flight after the ten pages of the first
\* were processed.
C25_Witness ==
  \E i \in 1..MaxInv :
    /\ inv[i].strategy = "ultra" /\ inv[i].pc = "ultraBatch"
    /\ inv[i].batch = 2 /\ inv[i].processedPages = 10
    /\ Unsettled(inv[i]) # {}


\* Invocation i is a parallel-batched run whose target was reached by the
\* batches applied so far.
TargetReached(i) ==
  /\ inv[i].strategy = "ultra" /\ InFlight(inv[i])
  /\ inv[i].processedPages > 0 /\ inv[i].remainingToSelect <= 0

\* C26 as stated: once the target of a parallel-batched run is reached after
\* a batch, the run starts no further batch and makes no further network
\* request of any kind before it completes.
C26_NoCallsAfterTarget ==
  [][\A i \in 1..MaxInv :
       TargetReached(i) =>
         /\ inv'[i].pc # "ultraBatch"
         /\ inv'[i].issued > inv[i].issued =>
              \A k \in 1..Len(inv'[i].slots) : inv'[i].slots[k].status # "inflight"]_vars

\* C26 amended: once the target of a parallel-batched run is reached after a
\* batch, the run starts no further batch and requests no further page; the
\* one request it still makes is the bulk-by-ids request for the first
\* page-size slice of the selected ids, for display.
C26_NoPagesAfterTarget ==
  [][\A i \in 1..MaxInv :
       TargetReached(i) =>
         /\ inv'[i].pc # "ultraBatch"
         /\ inv'[i].issued > inv[i].issued =>
              /\ inv[i].pc = "ultraFinal"
              /\ Len(inv'[i].slots) = 1
              /\ inv'[i].slots[1].url =
                   IdsUrl(SubSeq(inv'[i].newSelected, 1,
                                 Min(rowsPerPage, Len(inv'[i].newSelected))))]_vars

\* A run of two batches reached its target with the second and then sent
\* its display request.
C26_Witness ==
  \E i \in 1..MaxInv :
    /\ inv[i].strategy = "ultra" /\ inv[i].pc = "ultraShow"
    /\ inv[i].processedPages = 12 /\ inv[i].remainingToSelect = 0
    /\ inv[i].slots[1].status = "inflight"


RoundedProgress(p, t) ==
  CHOOSE v \in 0..200 :
    /\ (2 * v - 1) * t <= 2 * (10 * t + 80 * p)
    /\ 2 * (10 * t + 80 * p) < (2 * v + 1) * t

\* C28: after each batch of a parallel-batched run that leaves ids missing,
\* the Selection Set is updated with the ids gathered so far and the progress
\* reported is round(10 + (processedPages / totalPages) * 80), processedPages
\* being the pages of all batches awaited so far; the value lies in 10..90.
C28_BatchProgress ==
  [][\A i \in 1..MaxInv :
       (/\ inv[i].pc = "ultraBatch" /\ inv'[i].pc # "ultraBatch"
        /\ inv'[i].remainingToSelect > 0) =>
         LET p == inv[i].issued
             t == Len(inv[i].neededPages)
         IN  /\ inv'[i].pc = "ultraDelay"
             /\ inv'[i].processedPages = p
             /\ selectedArtworks' = inv'[i].newSelected
             /\ selectionProgress' = RoundedProgress(p, t)
             /\ inv'[i].progress = <<RoundedProgress(p, t)>>
             /\ selectionProgress' \in 10..90]_vars

\* After the first batch of ten of twelve pages the progress is 77 and the
\* 132 ids gathered so far are the Selection Set.
C28_Witness ==
  \E i \in 1..MaxInv :
    /\ inv[i].strategy = "ultra" /\ inv[i].pc = "ultraDelay"
    /\ inv[i].processedPages = 10 /\ Len(inv[i].neededPages) = 12
    /\ selectionProgress = 77
    /\ selectedArtworks = inv[i].newSelected
    /\ Len(selectedArtworks) = 132


\* C29: every run of the bulk-id strategy reports the progress values 10, 20,
\* 50, 80, 100 in that order, whatever the page, the starting selection and
\* the outcome of its requests: its first step reports 10 and 20 and goes on
\* to the id requests, the step after them reports 50 and 80, the last one
\* 100, and no other step of the run reports anything.
C29_BulkCheckpoints ==
  [][\A i \in 1..MaxInv :
       (inv'[i].strategy = "bulk" /\ inv'[i] # inv[i]) =>
         CASE inv[i].pc = "dispatch" ->
                inv'[i].pc = "bulkIds" /\ inv'[i].progress = <<10, 20>>
           [] inv[i].pc = "bulkIds" /\ inv'[i].pc = "bulkIds" ->
                inv'[i].progress = << >>
           [] inv[i].pc = "bulkIds" /\ inv'[i].pc = "bulkShow" ->
                inv'[i].progress = <<50, 80>>
           [] inv[i].pc = "bulkIds" /\ inv'[i].pc = "done" ->
                inv'[i].progress = <<50, 80, 100>>
           [] inv[i].pc = "bulkShow" /\ inv'[i].pc = "bulkShow" ->
                inv'[i].progress = << >>
           [] inv[i].pc = "bulkShow" /\ inv'[i].pc = "done" ->
                inv'[i].progress = <<100>>
           [] OTHER -> FALSE]_vars


\* C30: the display request of the bulk-id strategy never changes the
\* membership of the Selection Set: the set gathered before the request is
\* kept while it is awaited and is the set written at completion, whether the
\* request succeeds, returns no records or fails.
C30_DisplayKeepsMembership ==
  [][\A i \in 1..MaxInv :
       inv[i].pc = "bulkShow" =>
         /\ inv'[i].newSelected = inv[i].newSelected
         /\ inv'[i].pc = "done" => selectedArtworks' = inv[i].newSelected]_vars

\* A bulk-id run from page 1 of 30 records ended after its display request
\* failed: the ids of pages 2 and 3 are in the Selection Set all the same.
C30_Witness ==
  \E i \in 1..MaxInv :
    /\ inv[i].strategy = "bulk" /\ inv[i].pc = "done" /\ inv[i].failed
    /\ inv[i].page0 = 1 /\ inv[i].total0 = 30
    /\ selectedArtworks = inv[i].newSelected
    /\ Has(selectedArtworks, rowsPerPage + 1)
    /\ Has(selectedArtworks, 2 * rowsPerPage + 1)
    /\ artworks = inv[i].art0

\* C31: a change the user makes to the Selection Set while an invocation is
\* in flight survives the invocation's writes: a write drops no id that is
\* selected when it happens, and brings back no id of the starting set that
\* the user has removed since.
C31_UserChangeSurvives ==
  [][\A i \in 1..MaxInv :
       (InFlight(inv[i]) /\ inv'[i] # inv[i]
          /\ selectedArtworks' # selectedArtworks)
         => /\ Range(selectedArtworks) \subseteq Range(selectedArtworks')
            /\ \A id \in Range(inv[i].sel0) \ Range(selectedArtworks) :
                 id \notin Range(selectedArtworks')]_vars

\* C32: an invocation for target N never overshoots: every Selection Set it
\* writes, and the set it has gathered when it completes (the one it wrote
\* last), has at most N members, and the ids a write adds to the starting
\* set number at most N minus the starting size.
C32_NeverOvershoots ==
  [][\A i \in 1..MaxInv :
       (InFlight(inv[i]) /\ inv'[i] # inv[i]) =>
         /\ selectedArtworks' # selectedArtworks =>
              /\ Len(selectedArtworks') <= inv[i].count
              /\ Cardinality(Range(selectedArtworks') \ Range(inv[i].sel0))
                   <= inv[i].count - Len(inv[i].sel0)
         /\ inv'[i].pc = "done" => Len(inv'[i].newSelected) <= inv[i].count]_vars

\* A run for 30 rows that took only the first six ids of the last page it
\* fetched.
C32_Witness ==
  \E i \in 1..MaxInv :
    /\ Succeeded(inv[i]) /\ inv[i].count = 30
    /\ inv[i].sel0 = <<>>
    /\ Len(selectedArtworks) = 30
    /\ Has(selectedArtworks, 30) /\ ~Has(selectedArtworks, 31)

\* C33: no strategy requests a page of the list beyond the last page,
\* ceil(totalRecords / rowsPerPage), of the total its invocation read.
C33_NoPagePastLast ==
  \A i \in 1..MaxInv : \A k \in 1..Len(inv[i].slots) :
    inv[i].slots[k].url.kind = "page"
      => inv[i].slots[k].url.page <= Ceil(inv[i].total0, rowsPerPage)

\* C34: while a bulk-select invocation is in flight (isBulkSelecting), the
\* loading flag that disables the bulk-select buttons is set.
C34_BusyImpliesLoading == isBulkSelecting => loading

\* C35: whenever the view shows the selected rows (viewingSelected), the
\* Selection Set is not empty.
C35_ReviewNonEmpty == viewingSelected => selectedArtworks # <<>>

\* C36: when a strategy completes having switched to the view of the selected
\* rows, with every request answered and no other user event, the rendered
\* records are the slice of the Selection Set that belongs to the page the
\* paginator shows, whatever page the request was started from.
C36_ShowsCurrentSlice ==
  [][\A i \in 1..MaxInv :
       (/\ InFlight(inv[i]) /\ inv'[i].pc = "done"
        /\ inv'[i].strategy \in {"hybrid", "ultra", "bulk"}
        /\ viewingSelected'
        /\ ~inv[i].failed /\ Events = 0 /\ ~inv[i].overlap)
         => Range(artworks') =
              Range(Slice(selectedArtworks', (currentPage' - 1) * rowsPerPage,
                          currentPage' * rowsPerPage))]_vars

\* C37: a request of fetchWithCache that fails by transport error leaves the
\* Page Cache as it was, with no entry that would serve its URL: a fetch of
\* the same URL made next goes to the network again.
C37_FailureNotCached ==
  [][\A i \in 1..MaxInv : \A k \in 1..Len(inv[i].slots) :
       (/\ inv[i].pc \in WaitPcs /\ inv'[i].pc = inv[i].pc
        /\ k \in 1..Len(inv'[i].slots)
        /\ inv[i].slots[k].status = "inflight"
        /\ inv'[i].slots[k].status = "rejected")
         => /\ requestCache' = requestCache
            /\ IssueFetch(requestCache', inv[i].slots[k].url, now').status
                 = "inflight"]_vars

\* C38: a click on Select All calls the dispatcher with the target count
\* totalRecords, whatever text the count input held before the click.
C38_SelectAllTargetsTotal ==
  [][(nextInv' = nextInv + 1 /\ selectionCount' # selectionCount)
       => /\ inv'[nextInv].count = totalRecords
          /\ inv'[nextInv].outcome =
               Verdict(NumToString(totalRecords), Len(selectedArtworks),
                       currentPage, totalRecords)]_vars

\* C39: in the earlier dispatcher, a bulk-select request never removes a
\* member: every id selected when the request was made is selected when it
\* has completed.
C39_VariantKeepsMembers ==
  [][\A i \in 1..MaxInv :
       (InFlight(inv[i]) /\ inv'[i].pc = "done")
         => Range(inv[i].sel0) \subseteq Range(selectedArtworks')]_vars

====
